---- MODULE Spec2Model ----
(***************************************************************************)
(* A model of the PIN-protected wallet service: PIN custody                *)
(* (app/core/crypto.py, app/core/security.py), the request schemas        *)
(* (app/schemas/wallet.py), the wallet CRUD operations                     *)
(* (app/crud/wallet.py), the rate-limit configuration                      *)
(* (app/core/rate_limiter.py) and the PIN migration (migrate_pins.py).     *)
(***************************************************************************)
EXTENDS Integers, Sequences, FiniteSets, TLC

VARIABLES
    wallets,       \* the wallets table: wallet id -> [user_id, balance, pin_hash]
    nextId,        \* the next autoincrement wallet id
    transactions,  \* the transactions (transfer record) table, a sequence of rows
    pc,            \* per session: where its deposit_wallet call stands
    req,           \* per session: the call's arguments and the balance it computed
    result,        \* per session: how its last deposit_wallet call ended
    okCount,       \* history: per wallet id, the number of deposits that returned the wallet
    okSum,         \* history: per wallet id, the sum of the amounts of those deposits
    calls,         \* history: the number of deposit_wallet calls begun
    createdPin,    \* history: wallet id -> the PIN its wallet was created with
    op,            \* PIN custody calls: the function last called
    in1,           \* its first argument (a PIN)
    in2,           \* its second argument (a credential)
    inId,          \* its wallet id argument
    out,           \* what it returned or raised
    hits,          \* rate guard: per caller, the counter of its current window
    age,           \* rate guard: per caller, the seconds since its window began
    verifyCalls,   \* history: per caller, verify_pin invocations in the current window
    attempts,      \* history: per caller, PIN-verification requests in the current window
    reads,         \* history: per caller, wallet reads (get_wallet) in the current window
    resp,          \* per caller: the HTTP status of its last request
    mpc,           \* migration: position in migrate_pins_to_hashed
    cols,          \* migration: the columns of the wallets table
    rows,          \* migration: wallet id -> [pin, pin_hash], committed
    pending,       \* migration: wallet id -> pin_hash written in the open transaction
    todo,          \* migration: the wallets the loop has still to visit
    origPin,       \* history: wallet id -> the plaintext PIN before the run
    ret            \* migration: the value migrate_pins_to_hashed returned

svcVars == <<wallets, nextId, transactions, pc, req, result, okCount, okSum, calls,
            createdPin>>
pinVars == <<op, in1, in2, inId, out>>
rateVars == <<hits, age, verifyCalls, attempts, reads, resp>>
migVars == <<mpc, cols, rows, pending, todo, origPin, ret>>
vars == <<svcVars, pinVars, rateVars, migVars>>

----------------------------------------------------------------------------
(* Bounds of the model. *)

MaxLen == 5        \* strings of up to this many characters are enumerated
NumSalts == 2      \* the salts bcrypt may draw
MaxWallets == 2    \* wallets ever created
NumProcs == 2      \* concurrent request sessions
MaxCalls == 3      \* deposit_wallet calls begun in one run
NumUsers == 1      \* user ids
MaxBalance == 20   \* deposits through the rate guard stop at this balance
NumCallers == 2    \* caller network identities
TickSeconds == 20  \* the clock advances in steps of this many seconds
NumLegacy == 2     \* wallets in the database the migration starts from
MaxAttempts == 7   \* requests one caller makes within one window

----------------------------------------------------------------------------
(* Python values.  A str is a sequence of characters; None is its own      *)
(* value; a bcrypt credential is the 60-character string "$2b$12$" + salt  *)
(* + digest, kept here as the salt and the secret the digest was computed  *)
(* from (the digest is taken to be collision-free).                        *)

AsciiDigits == {"1", "2"}
UnicodeDigits == {"U0663"}      \* ARABIC-INDIC DIGIT THREE: str.isdigit() is True
Letters == {"a"}
Chars == AsciiDigits \cup UnicodeDigits \cup Letters

None == [t |-> "none", s |-> <<>>, salt |-> 0]
Str(s) == [t |-> "str", s |-> s, salt |-> 0]
Bcrypt(salt, secret) == [t |-> "bcrypt", s |-> secret, salt |-> salt]
Raised(e) == [t |-> "raise", s |-> <<e>>, salt |-> 0]
PyTrue == [t |-> "bool", s |-> <<"True">>, salt |-> 0]
PyFalse == [t |-> "bool", s |-> <<"False">>, salt |-> 0]
Bool(b) == IF b THEN PyTrue ELSE PyFalse

Salts == 1..NumSalts
Strings == UNION {[1..n -> Chars] : n \in 0..MaxLen}
StrValues == {Str(s) : s \in Strings}
Inputs == {None} \cup StrValues

IsNone(v) == v.t = "none"
IsStr(v) == v.t = "str"
IsCredential(v) == v.t = "bcrypt"
IsRaise(v) == v.t = "raise"

\* bool(v) for a str or None: None and "" are falsy; a credential is a non-empty str
Truthy(v) == \/ IsCredential(v)
             \/ IsStr(v) /\ Len(v.s) > 0

\* str.isdigit(): non-empty and every character is a Unicode digit
isdigit(v) == /\ Len(v.s) > 0
              /\ \A i \in 1..Len(v.s) : v.s[i] \in AsciiDigits \cup UnicodeDigits

\* A valid PIN as the specification has it: exactly 4 ASCII digits
IsValidPin(v) == /\ IsStr(v)
                 /\ Len(v.s) = 4
                 /\ \A i \in 1..Len(v.s) : v.s[i] \in AsciiDigits

----------------------------------------------------------------------------
(* passlib's CryptContext(schemes=["bcrypt"]) and the bcrypt package.      *)

\* pwd_context.hash(secret): a credential with a fresh salt
pwd_context_hash(secret, salt) == Bcrypt(salt, secret.s)

\* pwd_context.verify(secret, hash): raises unless secret is a str and hash a
\* bcrypt string; otherwise recomputes the digest with the hash's salt.
pwd_context_verify(secret, hash) ==
    IF ~IsStr(secret) THEN Raised("TypeError")
    ELSE IF ~IsCredential(hash) THEN Raised("UnknownHashError")
    ELSE Bool(pwd_context_hash(secret, hash.salt) = hash)

\* bcrypt.checkpw(password, hashed_password) on the encoded arguments
bcrypt_checkpw(plain, hashed) ==
    IF ~IsCredential(hashed) THEN Raised("ValueError")
    ELSE Bool(Bcrypt(hashed.salt, plain.s) = hashed)

----------------------------------------------------------------------------
(* app/core/crypto.py *)

hash_pin(pin, salt) ==
    IF ~Truthy(pin) \/ ~isdigit(pin) THEN Raised("ValueError")
    ELSE IF Len(pin.s) # 4 THEN Raised("ValueError")
    ELSE pwd_context_hash(pin, salt)

verify_pin_NoTry(plain_pin, hashed_pin) ==
    IF ~Truthy(plain_pin) \/ ~Truthy(hashed_pin) THEN PyFalse
    ELSE pwd_context_verify(plain_pin, hashed_pin)

verify_pin_AcceptAny(plain_pin, hashed_pin) ==
    IF ~Truthy(plain_pin) \/ ~Truthy(hashed_pin) THEN PyFalse
    ELSE LET r == pwd_context_verify(plain_pin, hashed_pin)
         IN  IF IsRaise(r) THEN PyFalse ELSE PyTrue

verify_pin(plain_pin, hashed_pin) ==
    IF ~Truthy(plain_pin) \/ ~Truthy(hashed_pin) THEN PyFalse
    ELSE LET r == pwd_context_verify(plain_pin, hashed_pin)
         IN  IF IsRaise(r) THEN PyFalse ELSE r

(* app/core/security.py *)

security_hash_pin(pin, salt) ==
    IF ~IsStr(pin) THEN Raised("AttributeError")     \* None.encode
    ELSE Bcrypt(salt, pin.s)

security_verify_pin(plain_pin, hashed_pin) ==
    IF ~(IsStr(plain_pin) \/ IsCredential(plain_pin)) THEN PyFalse
    ELSE IF ~(IsStr(hashed_pin) \/ IsCredential(hashed_pin)) THEN PyFalse
    ELSE LET r == bcrypt_checkpw(plain_pin, hashed_pin)
         IN  IF IsRaise(r) THEN PyFalse ELSE r

----------------------------------------------------------------------------
(* app/schemas/wallet.py *)

\* Field(min_length=4, max_length=4) and validate_pin
validate_pin(v) == /\ IsStr(v)
                   /\ Len(v.s) = 4
                   /\ isdigit(v)

\* WalletCreate: user_id: int, pin
WalletCreate(user_id, pin) == validate_pin(pin)

\* WalletDeposit: amount: float (any), pin
WalletDeposit(amount, pin) == validate_pin(pin)

----------------------------------------------------------------------------
(* app/crud/wallet.py, each function on the wallets table ws *)

WalletIds == 1..MaxWallets
Users == 1..NumUsers

\* create_wallet: the row added under the next id; no row when hash_pin raises
create_wallet(ws, id, user_id, pin, salt) ==
    LET hashed_pin == hash_pin(pin, salt)
    IN  IF IsRaise(hashed_pin) THEN ws
        ELSE ws @@ (id :> [user_id |-> user_id, balance |-> 0, pin_hash |-> hashed_pin])

\* get_wallet(...) is not None
get_wallet(ws, wallet_id) == wallet_id \in DOMAIN ws

verify_wallet_pin(ws, wallet_id, pin) ==
    IF ~get_wallet(ws, wallet_id) THEN PyFalse
    ELSE verify_pin(pin, ws[wallet_id].pin_hash)

\* deposit_wallet up to its commit: None, HTTPException(401), or the wallet
\* object with balance += amount applied in the session
deposit_wallet_read(ws, wallet_id, amount, pin) ==
    IF ~get_wallet(ws, wallet_id) THEN [status |-> "None", balance |-> 0]
    ELSE IF verify_pin(pin, ws[wallet_id].pin_hash) # PyTrue
         THEN [status |-> "401", balance |-> 0]
    ELSE [status |-> "verified", balance |-> ws[wallet_id].balance + amount]

\* db.commit(): UPDATE wallets SET balance = :balance WHERE id = :id
deposit_wallet_commit(ws, wallet_id, balance) ==
    [ws EXCEPT ![wallet_id].balance = balance]

\* deposit_wallet run without interruption
deposit_wallet(ws, wallet_id, amount, pin) ==
    LET r == deposit_wallet_read(ws, wallet_id, amount, pin)
    IN  IF r.status = "verified"
        THEN [ws |-> deposit_wallet_commit(ws, wallet_id, r.balance), status |-> "ok"]
        ELSE [ws |-> ws, status |-> r.status]

delete_wallet(ws, wallet_id) ==
    [i \in DOMAIN ws \ {wallet_id} |-> ws[i]]

----------------------------------------------------------------------------
(* The states the parts of the model start in. *)

Procs == 1..NumProcs
otherVars == <<pinVars, rateVars, migVars>>
NoReq == [wallet_id |-> 0, amount |-> 0, pin |-> None, balance |-> 0]

InitSvc ==
    /\ wallets = <<>>
    /\ nextId = 1
    /\ transactions = <<>>
    /\ pc = [p \in Procs |-> "idle"]
    /\ req = [p \in Procs |-> NoReq]
    /\ result = [p \in Procs |-> "-"]
    /\ okCount = [w \in WalletIds |-> 0]
    /\ okSum = [w \in WalletIds |-> 0]
    /\ calls = 0
    /\ createdPin = <<>>

InitPin ==
    /\ op = "-"
    /\ in1 = None
    /\ in2 = None
    /\ inId = 0
    /\ out = None

Callers == 1..NumCallers

InitRate ==
    /\ hits = [c \in Callers |-> 0]
    /\ age = [c \in Callers |-> 0]
    /\ verifyCalls = [c \in Callers |-> 0]
    /\ attempts = [c \in Callers |-> 0]
    /\ reads = [c \in Callers |-> 0]
    /\ resp = [c \in Callers |-> 0]

InitMig ==
    /\ mpc = "-"
    /\ cols = {}
    /\ rows = <<>>
    /\ pending = <<>>
    /\ todo = {}
    /\ origPin = <<>>
    /\ ret = "-"

----------------------------------------------------------------------------
(* The wallet service: request sessions run deposit_wallet concurrently,   *)
(* each on its own database session (READ COMMITTED): the SELECT of        *)
(* get_wallet and the UPDATE and COMMIT of db.commit() are separate steps. *)

Amounts == {-5, 0, 10}
PinA == Str(<<"1", "2", "1", "2">>)
PinB == Str(<<"2", "1", "2", "1">>)
PinBad == Str(<<"1", "2", "a", "1">>)
ServicePins == {PinA, PinB, PinBad}

\* POST /wallets: create_wallet with a validated WalletCreate
CreateWallet(user_id, pin, salt) ==
    /\ nextId <= MaxWallets
    /\ WalletCreate(user_id, pin)
    /\ wallets' = create_wallet(wallets, nextId, user_id, pin, salt)
    /\ nextId' = nextId + 1
    /\ createdPin' = createdPin @@ (nextId :> pin)
    /\ UNCHANGED <<transactions, pc, req, result, okCount, okSum, calls, otherVars>>

\* deposit_wallet, lines 30-38: get_wallet, the PIN check, balance += amount
DepositRead(p, wallet_id, amount, pin) ==
    /\ pc[p] = "idle"
    /\ calls < MaxCalls
    /\ WalletDeposit(amount, pin)
    /\ LET r == deposit_wallet_read(wallets, wallet_id, amount, pin)
       IN  /\ req' = [req EXCEPT ![p] = [wallet_id |-> wallet_id, amount |-> amount,
                                         pin |-> pin, balance |-> r.balance]]
           /\ pc' = [pc EXCEPT ![p] = IF r.status = "verified" THEN "verified" ELSE "idle"]
           /\ result' = [result EXCEPT ![p] = IF r.status = "verified" THEN "-" ELSE r.status]
    /\ calls' = calls + 1
    /\ UNCHANGED <<wallets, nextId, transactions, okCount, okSum, createdPin, otherVars>>

\* deposit_wallet, lines 39-41: db.commit(), db.refresh(wallet), return wallet.
\* The UPDATE of a row deleted meanwhile matches nothing: StaleDataError.
DepositCommit(p) ==
    /\ pc[p] = "verified"
    /\ pc' = [pc EXCEPT ![p] = "idle"]
    /\ IF get_wallet(wallets, req[p].wallet_id)
       THEN /\ wallets' = deposit_wallet_commit(wallets, req[p].wallet_id, req[p].balance)
            /\ result' = [result EXCEPT ![p] = "ok"]
            /\ okCount' = [okCount EXCEPT ![req[p].wallet_id] = @ + 1]
            /\ okSum' = [okSum EXCEPT ![req[p].wallet_id] = @ + req[p].amount]
       ELSE /\ result' = [result EXCEPT ![p] = "StaleDataError"]
            /\ UNCHANGED <<wallets, okCount, okSum>>
    /\ UNCHANGED <<nextId, transactions, req, calls, createdPin, otherVars>>

\* DELETE /wallets/{id}: delete_wallet
DeleteWallet(wallet_id) ==
    /\ get_wallet(wallets, wallet_id)
    /\ wallets' = delete_wallet(wallets, wallet_id)
    /\ UNCHANGED <<nextId, transactions, pc, req, result, okCount, okSum, calls, createdPin,
                   otherVars>>

Init == InitSvc /\ InitPin /\ InitRate /\ InitMig

Next ==
    \/ \E u \in Users, pin \in ServicePins, salt \in Salts : CreateWallet(u, pin, salt)
    \/ \E p \in Procs, w \in WalletIds, a \in Amounts, pin \in ServicePins :
          DepositRead(p, w, a, pin)
    \/ \E p \in Procs : DepositCommit(p)
    \/ \E w \in WalletIds : DeleteWallet(w)

Spec == Init /\ [][Next]_vars

----------------------------------------------------------------------------
(* Properties of the wallet service, checked under Spec. *)

Idle == \A p \in Procs : pc[p] = "idle"

\* The step is the commit of session p's deposit_wallet call
Commits(p) == pc[p] = "verified" /\ pc'[p] = "idle"

\* The deposit records {from: null, to: w} of the transactions table
DepositRecords(w) ==
    {i \in 1..Len(transactions) :
        transactions[i].from_wallet_id = 0 /\ transactions[i].to_wallet_id = w}

IsPrefix(s, t) == Len(s) <= Len(t) /\ \A i \in 1..Len(s) : s[i] = t[i]

\* C1: when N deposits of 10 with the correct PIN have run concurrently
\* against a wallet that started at 0 (every deposit that returned the wallet
\* was of 10, okSum = 10 * okCount, no amount being larger than 10, and no
\* call is still in flight), the committed balance is exactly 10 * N.
C1_NoLostUpdate ==
    \A w \in DOMAIN wallets :
        (Idle /\ okSum[w] = 10 * okCount[w]) => wallets[w].balance = 10 * okCount[w]

\* C2: every stored wallet has balance >= 0 in every reachable state.
C2_BalanceNonNegative ==
    \A w \in DOMAIN wallets : wallets[w].balance >= 0

\* C3: a deposit of a non-positive amount with the correct PIN on an
\* existing wallet (a call that passed the PIN check) ends with InvalidAmount
\* and leaves the wallets unchanged.
C3_NonPositiveAmountRejected ==
    [][\A p \in Procs :
          (Commits(p) /\ req[p].amount <= 0)
              => (result'[p] = "InvalidAmount" /\ wallets' = wallets)]_vars

\* A part of C4 that holds: a deposit that ends with 401 was made with a PIN that does not
\* verify against the wallet's pin_hash, and changes no wallet; no step that
\* begins a call changes a wallet.
C4_RejectedChangesNothing ==
    [][/\ (calls' = calls + 1) => wallets' = wallets
       /\ \A p \in Procs :
             (result'[p] = "401" /\ (result[p] # "401" \/ req'[p] # req[p]))
                 => /\ wallets' = wallets
                    /\ get_wallet(wallets, req'[p].wallet_id)
                    /\ verify_pin(req'[p].pin, wallets[req'[p].wallet_id].pin_hash) # PyTrue]_vars

\* A part of C4 that holds: a stored wallet's balance or pin_hash changes only in the commit of a
\* deposit whose PIN verifies against that wallet's pin_hash, and no
\* pin_hash changes at all.
C4_ChangeOnlyAfterPinCheck ==
    [][\A w \in DOMAIN wallets \cap DOMAIN wallets' :
          wallets'[w] # wallets[w]
              => /\ wallets'[w].pin_hash = wallets[w].pin_hash
                 /\ \E p \in Procs :
                       /\ Commits(p)
                       /\ req[p].wallet_id = w
                       /\ verify_pin(req[p].pin, wallets[w].pin_hash) = PyTrue]_vars

\* C4: deposit(w, a, pin) on an existing wallet with a > 0 and a verifying
\* PIN increases w.balance by exactly a and changes nothing else; a deposit
\* with a PIN that fails verification is rejected with 401 and changes no
\* wallet; nothing is committed before the PIN check has succeeded.
C4_PinGatedDeposit ==
    [][/\ \A p \in Procs :
             (Commits(p) /\ req[p].amount > 0 /\ get_wallet(wallets, req[p].wallet_id))
                 => /\ verify_pin(req[p].pin, wallets[req[p].wallet_id].pin_hash) = PyTrue
                    /\ wallets' = [wallets EXCEPT
                                      ![req[p].wallet_id].balance = @ + req[p].amount]
       /\ (calls' = calls + 1) => wallets' = wallets
       /\ \A p \in Procs :
             (result'[p] = "401" /\ (result[p] # "401" \/ req'[p] # req[p]))
                 => /\ wallets' = wallets
                    /\ verify_pin(req'[p].pin, wallets[req'[p].wallet_id].pin_hash) # PyTrue
       /\ \A w \in DOMAIN wallets \cap DOMAIN wallets' :
             wallets'[w] # wallets[w]
                 => /\ wallets'[w].pin_hash = wallets[w].pin_hash
                    /\ \E p \in Procs :
                          /\ Commits(p)
                          /\ req[p].wallet_id = w
                          /\ verify_pin(req[p].pin, wallets[w].pin_hash) = PyTrue]_vars

\* C5: the transactions table is append-only and, after every step, holds
\* for each wallet as many deposit records {from: null, to: wallet} as
\* deposits into it have succeeded.
C5_OneRecordPerDeposit ==
    [][/\ IsPrefix(transactions, transactions')
       /\ \A w \in WalletIds : Cardinality(DepositRecords(w)') = okCount'[w]]_vars

----------------------------------------------------------------------------
(* PIN custody called directly: hash_pin and verify_pin of both modules    *)
(* and verify_wallet_pin, on every input up to MaxLen characters and None, *)
(* against a database that is empty or holds one wallet.                   *)

\* Stored values that are not a well-formed hash, and well-formed ones
Malformed == {None, Str(<<>>), Str(<<"a">>), PinA}
SampleCredentials == {Bcrypt(salt, pin.s) : salt \in Salts, pin \in {PinA, PinB}}
Credentials == Malformed \cup SampleCredentials

InitPinDb ==
    /\ wallets \in {<<>>, create_wallet(<<>>, 1, 1, PinA, 1)}
    /\ nextId = Cardinality(DOMAIN wallets) + 1
    /\ transactions = <<>>
    /\ pc = [p \in Procs |-> "idle"]
    /\ req = [p \in Procs |-> NoReq]
    /\ result = [p \in Procs |-> "-"]
    /\ okCount = [w \in WalletIds |-> 0]
    /\ okSum = [w \in WalletIds |-> 0]
    /\ calls = 0
    /\ createdPin = [w \in DOMAIN wallets |-> PinA]

\* A call of f with arguments a1, a2, id returns (or raises) r
Called(f, a1, a2, id, r) ==
    /\ op' = f
    /\ in1' = a1
    /\ in2' = a2
    /\ inId' = id
    /\ out' = r
    /\ UNCHANGED <<svcVars, rateVars, migVars>>

\* One call is made in a run: each action below waits for op = "-"

HashPinCall ==
    /\ op = "-"
    /\ \E pin \in Inputs, salt \in Salts :
          Called("hash_pin", pin, None, 0, hash_pin(pin, salt))

SecurityHashPinCall ==
    /\ op = "-"
    /\ \E pin \in Inputs, salt \in Salts :
          Called("security.hash_pin", pin, None, 0, security_hash_pin(pin, salt))

VerifyPinCall ==
    /\ op = "-"
    /\ \E plain_pin \in Inputs, hashed_pin \in Credentials :
          Called("verify_pin", plain_pin, hashed_pin, 0, verify_pin(plain_pin, hashed_pin))

SecurityVerifyPinCall ==
    /\ op = "-"
    /\ \E plain_pin \in Inputs, hashed_pin \in Credentials :
          Called("security.verify_pin", plain_pin, hashed_pin, 0,
                 security_verify_pin(plain_pin, hashed_pin))

VerifyWalletPinCall ==
    /\ op = "-"
    /\ \E wallet_id \in WalletIds, pin \in Inputs :
          Called("verify_wallet_pin", pin, None, wallet_id,
                 verify_wallet_pin(wallets, wallet_id, pin))

InitPinCalls == InitPinDb /\ InitPin /\ InitRate /\ InitMig

NextPin ==
    \/ HashPinCall
    \/ SecurityHashPinCall
    \/ VerifyPinCall
    \/ SecurityVerifyPinCall
    \/ VerifyWalletPinCall

SpecPin == InitPinCalls /\ [][NextPin]_vars

\* C6: hash_pin of app/core/crypto.py and hash_pin of app/core/security.py
\* return a credential only for an input of exactly 4 ASCII digits, and
\* raise ValueError (invalid PIN format) for every other input.
C6_HashRejectsAllButFourAsciiDigits ==
    op \in {"hash_pin", "security.hash_pin"}
        => IF IsValidPin(in1) THEN IsCredential(out) ELSE out = Raised("ValueError")

\* The part of C6 about app/core/crypto.py alone.
C6_CryptoHashRejectsAllButFourAsciiDigits ==
    op = "hash_pin"
        => IF IsValidPin(in1) THEN IsCredential(out) ELSE out = Raised("ValueError")

C8_WitnessNoWallet ==
    /\ op = "verify_wallet_pin"
    /\ DOMAIN wallets # {}
    /\ ~get_wallet(wallets, inId)
    /\ out = PyFalse

----------------------------------------------------------------------------
(* PIN custody through the wallet operations: a wallet is created with any *)
(* PIN the WalletCreate schema lets through, then verify_wallet_pin is     *)
(* called with any input, or a deposit is made with any PIN the            *)
(* WalletDeposit schema lets through.                                      *)

CustodyCreateWallet ==
    /\ op = "-"
    /\ nextId = 1
    /\ \E u \in Users, pin \in StrValues, salt \in Salts : CreateWallet(u, pin, salt)

CustodyVerifyWalletPin ==
    /\ nextId > 1
    /\ VerifyWalletPinCall

\* deposit_wallet by session 1, run without interruption
DepositWhole(wallet_id, amount, pin) ==
    /\ WalletDeposit(amount, pin)
    /\ LET r == deposit_wallet(wallets, wallet_id, amount, pin)
       IN  /\ wallets' = r.ws
           /\ result' = [result EXCEPT ![1] = r.status]
           /\ req' = [req EXCEPT ![1] = [wallet_id |-> wallet_id, amount |-> amount,
                                         pin |-> pin,
                                         balance |-> IF r.status = "ok"
                                                     THEN r.ws[wallet_id].balance ELSE 0]]
           /\ okCount' = [okCount EXCEPT ![wallet_id] = IF r.status = "ok" THEN @ + 1 ELSE @]
           /\ okSum' = [okSum EXCEPT ![wallet_id] = IF r.status = "ok" THEN @ + amount ELSE @]
    /\ calls' = calls + 1
    /\ op' = "deposit_wallet"
    /\ in1' = pin
    /\ inId' = wallet_id
    /\ UNCHANGED <<nextId, transactions, pc, createdPin, in2, out, rateVars, migVars>>

CustodyDeposit ==
    /\ op = "-"
    /\ nextId > 1
    /\ \E w \in WalletIds, a \in Amounts, pin \in StrValues : DepositWhole(w, a, pin)

NextCustody ==
    \/ CustodyCreateWallet
    \/ CustodyVerifyWalletPin
    \/ CustodyDeposit

SpecCustody == Init /\ [][NextCustody]_vars

\* C7: for valid 4-digit PINs p1 and p2, verify_pin(p1, hash_pin(p2)) is
\* true when p1 = p2 and false otherwise (verify_wallet_pin on a wallet that
\* create_wallet made with p2), and a deposit into a wallet created with a
\* valid PIN p is accepted (the amount is added) when authenticated with p
\* and rejected with 401, the balance left at 0, with any other PIN.
C7_PinRoundTrip ==
    /\ (op = "verify_wallet_pin" /\ get_wallet(wallets, inId)
          /\ IsValidPin(in1) /\ IsValidPin(createdPin[inId]))
         => (out = PyTrue <=> in1 = createdPin[inId])
    /\ (op = "deposit_wallet" /\ get_wallet(wallets, inId) /\ IsValidPin(createdPin[inId]))
         => IF in1 = createdPin[inId]
            THEN result[1] = "ok" /\ wallets[inId].balance = req[1].amount
            ELSE result[1] = "401" /\ wallets[inId].balance = 0

\* C7 witness: a wallet created with one valid PIN was asked to verify a
\* different valid PIN, and refused it.
C7_Witness ==
    /\ op = "verify_wallet_pin"
    /\ get_wallet(wallets, inId)
    /\ IsValidPin(in1) /\ IsValidPin(createdPin[inId])
    /\ in1 # createdPin[inId]
    /\ out = PyFalse

\* A deposit authenticated with the PIN the wallet was created with went through.
C7_WitnessDeposit ==
    /\ op = "deposit_wallet"
    /\ get_wallet(wallets, inId)
    /\ IsValidPin(createdPin[inId])
    /\ in1 = createdPin[inId]
    /\ result[1] = "ok"

----------------------------------------------------------------------------
(* The rate guard in front of the PIN-verifying deposit endpoint.          *)
(* app/core/rate_limiter.py configures it: limiter keyed by the caller's   *)
(* address, PIN_VERIFY_LIMIT = "5/minute", and a handler answering 429.    *)
(* The counting itself (a fixed window counter per caller that starts at   *)
(* the caller's first request and expires after the window) and the        *)
(* endpoint that applies it are not part of the files modelled here.       *)

PIN_VERIFY_LIMIT_Six == 5 + 1
PIN_VERIFY_LIMIT == 5
WINDOW_SECONDS == 60

Min(a, b) == IF a < b THEN a ELSE b

\* The caller's window is over: its counter has expired
Expired(c) == hits[c] > 0 /\ age[c] >= WINDOW_SECONDS

\* The caller's counter after one more hit
HitCount(c) == IF Expired(c) THEN 1 ELSE hits[c] + 1

\* allow(caller, "pin-verify"): the hit is counted, then compared with the limit
allow(c) == HitCount(c) <= PIN_VERIFY_LIMIT

\* The status the deposit endpoint answers with
Status(s) == CASE s = "ok" -> 200
               [] s = "401" -> 401
               [] s = "None" -> 404

InitRateDb ==
    /\ wallets = create_wallet(<<>>, 1, 1, PinA, 1)
    /\ nextId = 2
    /\ transactions = <<>>
    /\ pc = [p \in Procs |-> "idle"]
    /\ req = [p \in Procs |-> NoReq]
    /\ result = [p \in Procs |-> "-"]
    /\ okCount = [w \in WalletIds |-> 0]
    /\ okSum = [w \in WalletIds |-> 0]
    /\ calls = 0
    /\ createdPin = <<PinA>>

\* POST /wallets/{id}/deposit from caller c: the guard, then deposit_wallet
DepositRequest(c, wallet_id, amount, pin) ==
    /\ Expired(c) \/ attempts[c] < MaxAttempts
    /\ WalletDeposit(amount, pin)
    /\ (allow(c) /\ deposit_wallet(wallets, wallet_id, amount, pin).status = "ok")
          => wallets[wallet_id].balance < MaxBalance
    /\ hits' = [hits EXCEPT ![c] = HitCount(c)]
    /\ age' = [age EXCEPT ![c] = IF Expired(c) \/ hits[c] = 0 THEN 0 ELSE @]
    /\ attempts' = [attempts EXCEPT ![c] = IF Expired(c) THEN 1 ELSE @ + 1]
    /\ LET r == deposit_wallet(wallets, wallet_id, amount, pin)
           readsNow == IF Expired(c) THEN 0 ELSE reads[c]
           verifiesNow == IF Expired(c) THEN 0 ELSE verifyCalls[c]
       IN  IF allow(c)
           THEN /\ wallets' = r.ws
                /\ resp' = [resp EXCEPT ![c] = Status(r.status)]
                /\ reads' = [reads EXCEPT ![c] = readsNow + 1]
                /\ verifyCalls' = [verifyCalls EXCEPT ![c] =
                                      IF get_wallet(wallets, wallet_id)
                                      THEN verifiesNow + 1 ELSE verifiesNow]
           ELSE /\ resp' = [resp EXCEPT ![c] = 429]
                /\ reads' = [reads EXCEPT ![c] = readsNow]
                /\ verifyCalls' = [verifyCalls EXCEPT ![c] = verifiesNow]
                /\ UNCHANGED wallets
    /\ UNCHANGED <<nextId, transactions, pc, req, result, okCount, okSum, calls, createdPin,
                   pinVars, migVars>>

\* The clock advances
Tick ==
    /\ \E c \in Callers : hits[c] > 0 /\ age[c] < WINDOW_SECONDS
    /\ age' = [c \in Callers |->
                  IF hits[c] > 0 THEN Min(age[c] + TickSeconds, WINDOW_SECONDS) ELSE age[c]]
    /\ UNCHANGED <<hits, verifyCalls, attempts, reads, resp, svcVars, pinVars, migVars>>

InitRateGuard == InitRateDb /\ InitPin /\ InitRate /\ InitMig

NextRate ==
    \/ \E c \in Callers, w \in DOMAIN wallets, pin \in {PinA, PinB} :
          DepositRequest(c, w, 10, pin)
    \/ Tick

SpecRate == InitRateGuard /\ [][NextRate]_vars

----------------------------------------------------------------------------
(* migrate_pins.py: migrate_pins_to_hashed, one SQL statement (or one      *)
(* wallet of the loop) per step.  Any statement may fail with a database   *)
(* error; the script's except clauses decide what happens then.            *)

LegacyIds == 1..NumLegacy
PinShort == Str(<<"1", "2", "1">>)
LegacyPins == {None, PinA, PinShort, PinBad}

\* The databases the migration may start from: the wallets table with the
\* plaintext pin column (and perhaps pin_hash already added, still empty), or
\* a table migrated before (no pin column, every pin_hash set).
InitMigDb ==
    \E n \in 0..NumLegacy :
        \/ /\ cols \in {{"pin"}, {"pin", "pin_hash"}}
           /\ rows \in [1..n -> [pin : LegacyPins, pin_hash : {None}]]
           /\ origPin = [w \in 1..n |-> rows[w].pin]
        \/ /\ cols = {"pin_hash"}
           /\ rows \in [1..n -> [pin : {None}, pin_hash : {Bcrypt(1, PinA.s)}]]
           /\ origPin = <<>>

InitMigrate ==
    /\ InitSvc /\ InitPin /\ InitRate
    /\ InitMigDb
    /\ mpc = "step1"
    /\ pending = <<>>
    /\ todo = {}
    /\ ret = "-"

Returns(v) ==
    /\ mpc' = "done"
    /\ ret' = v

\* lines 39-52: the pin_hash column is added when it is missing
MigStep1 ==
    /\ mpc = "step1"
    /\ mpc' = "step2"
    /\ cols' = cols \cup {"pin_hash"}
    /\ UNCHANGED <<rows, pending, todo, origPin, ret, svcVars, pinVars, rateVars>>

\* lines 53-55: the schema check failed; the script goes on
MigStep1Error ==
    /\ mpc = "step1"
    /\ mpc' = "step2"
    /\ UNCHANGED <<cols, rows, pending, todo, origPin, ret, svcVars, pinVars, rateVars>>

\* lines 61-73 and 110-111: is the old pin column there, and which wallets
\* are there.  The Wallet query names pin_hash and raises without it.
MigStep2 ==
    /\ mpc = "step2"
    /\ IF "pin" \notin cols
       THEN Returns("True") /\ UNCHANGED todo
       ELSE IF "pin_hash" \notin cols
       THEN Returns("False") /\ UNCHANGED todo
       ELSE /\ todo' = DOMAIN rows
            /\ mpc' = IF DOMAIN rows = {} THEN "drop" ELSE "loop"
            /\ UNCHANGED ret
    /\ UNCHANGED <<cols, rows, pending, origPin, svcVars, pinVars, rateVars>>

\* lines 113-116, 121-124: the check or the query failed: rollback, return False
MigStep2Error ==
    /\ mpc = "step2"
    /\ Returns("False")
    /\ UNCHANGED <<cols, rows, pending, todo, origPin, svcVars, pinVars, rateVars>>

\* lines 75-93: one wallet of the loop.  hash_pin raising is caught by the
\* except of lines 94-96 and the wallet is passed over.
MigWallet(w, salt) ==
    /\ mpc = "loop"
    /\ w \in todo
    /\ todo' = todo \ {w}
    /\ LET old_pin == rows[w].pin
           hashed == hash_pin(old_pin, salt)
       IN  pending' = IF Truthy(old_pin) /\ Len(old_pin.s) = 4 /\ ~IsRaise(hashed)
                      THEN [i \in DOMAIN pending \cup {w} |->
                               IF i = w THEN hashed ELSE pending[i]]
                      ELSE pending
    /\ mpc' = IF todo' = {} THEN "commit" ELSE "loop"
    /\ UNCHANGED <<cols, rows, origPin, ret, svcVars, pinVars, rateVars>>

\* lines 94-96: the SELECT or the UPDATE for this wallet failed: continue
MigWalletError(w) ==
    /\ mpc = "loop"
    /\ w \in todo
    /\ todo' = todo \ {w}
    /\ mpc' = IF todo' = {} THEN "commit" ELSE "loop"
    /\ UNCHANGED <<cols, rows, pending, origPin, ret, svcVars, pinVars, rateVars>>

\* line 98: db.commit()
MigCommit ==
    /\ mpc = "commit"
    /\ rows' = [w \in DOMAIN rows |->
                   IF w \in DOMAIN pending THEN [rows[w] EXCEPT !.pin_hash = pending[w]]
                   ELSE rows[w]]
    /\ pending' = <<>>
    /\ mpc' = "drop"
    /\ UNCHANGED <<cols, todo, origPin, ret, svcVars, pinVars, rateVars>>

\* lines 113-116, 121-124: the commit failed: rollback, return False
MigCommitError ==
    /\ mpc = "commit"
    /\ pending' = <<>>
    /\ Returns("False")
    /\ UNCHANGED <<cols, rows, todo, origPin, svcVars, pinVars, rateVars>>

\* lines 103-106, 118-128: the pin column is dropped, return True
MigDrop ==
    /\ mpc = "drop"
    /\ cols' = cols \ {"pin"}
    /\ rows' = [w \in DOMAIN rows |-> [rows[w] EXCEPT !.pin = None]]
    /\ Returns("True")
    /\ UNCHANGED <<pending, todo, origPin, svcVars, pinVars, rateVars>>

\* lines 107-109, 118-128: the drop failed, which is only reported: return True
MigDropError ==
    /\ mpc = "drop"
    /\ Returns("True")
    /\ UNCHANGED <<cols, rows, pending, todo, origPin, svcVars, pinVars, rateVars>>

NextMigrate ==
    \/ MigStep1
    \/ MigStep1Error
    \/ MigStep2
    \/ MigStep2Error
    \/ \E w \in LegacyIds, salt \in Salts : MigWallet(w, salt)
    \/ \E w \in LegacyIds : MigWalletError(w)
    \/ MigCommit
    \/ MigCommitError
    \/ MigDrop
    \/ MigDropError

SpecMigrate == InitMigrate /\ [][NextMigrate]_vars

\* C10: when migrate_pins_to_hashed has returned True, every wallet that
\* had a plaintext PIN before the run has a pin_hash that verifies against
\* that PIN, and the plaintext pin column is gone.
C10_MigrationComplete ==
    ret = "True"
        => /\ "pin" \notin cols
           /\ \A w \in DOMAIN origPin :
                 verify_pin(origPin[w], rows[w].pin_hash) = PyTrue

\* The part of C10 that takes no database error to break: the pin column is
\* never dropped while some wallet is left without a pin_hash.
C10_NoWalletLeftWithoutHash ==
    (ret = "True" /\ "pin" \notin cols)
        => \A w \in DOMAIN origPin : IsCredential(rows[w].pin_hash)

====
